---------------------------- MODULE Spec2Model ----------------------------
(***************************************************************************)
(* A model of matrixpng: the MatrixPNG transformer (matrixpng/__init__.py) *)
(* and the iTXt chunk codec ChunkITXT (matrixpng/_pngTextChunks.py).       *)
(*                                                                         *)
(* Text is a sequence of code points and a byte string a sequence of       *)
(* integers 0..255.  Python floats are IEEE-754 binary64 numbers: the      *)
(* scale values the model draws are integer-valued, and the quotients the  *)
(* code forms from them are computed bit for bit (53-bit significand,      *)
(* round to nearest, ties to even) on two 27-bit limbs.                    *)
(***************************************************************************)
EXTENDS Integers, Sequences, FiniteSets, TLC

(***************************************************************************)
(* Bounds of the model.                                                    *)
(***************************************************************************)
\* number of operations performed on one MatrixPNG instance
MaxOps == 3
\* longest byte string handed to the ChunkITXT constructor
MaxChunkLen == 7

(***************************************************************************)
(* IEEE-754 binary64 arithmetic.                                           *)
(* A finite non-zero double is sg * (hi * 2^27 + lo) * 2^e with the        *)
(* significand hi * 2^27 + lo in [2^52, 2^53).                             *)
(***************************************************************************)
\* Let(v, F) is F(v): LET x == v IN F(x), with v evaluated once by TLC
Let(v, F(_)) == CHOOSE y \in {F(x) : x \in {v}} : TRUE

Limb == 2^27
HiMin == 2^25
HiMax == 2^26

FNaN == [k |-> "nan", sg |-> 0, hi |-> 0, lo |-> 0, e |-> 0]
FZero == [k |-> "zero", sg |-> 0, hi |-> 0, lo |-> 0, e |-> 0]
FNum(sg, m, e) == [k |-> "num", sg |-> sg, hi |-> m[1], lo |-> m[2], e |-> e]

Abs(n) == IF n < 0 THEN -n ELSE n
Sign(n) == IF n < 0 THEN -1 ELSE IF n > 0 THEN 1 ELSE 0

\* two-limb naturals <<hi, lo>>, value hi * 2^27 + lo
LGe(a, b) == a[1] > b[1] \/ (a[1] = b[1] /\ a[2] >= b[2])
LSub(a, b) ==
    IF a[2] >= b[2] THEN <<a[1] - b[1], a[2] - b[2]>>
    ELSE <<a[1] - b[1] - 1, a[2] + Limb - b[2]>>
LDbl(a) == <<(2 * a[1]) + ((2 * a[2]) \div Limb), (2 * a[2]) % Limb>>
LInc(a) == IF a[2] + 1 = Limb THEN <<a[1] + 1, 0>> ELSE <<a[1], a[2] + 1>>
LHalf(a) == <<a[1] \div 2, ((a[1] % 2) * (Limb \div 2)) + (a[2] \div 2)>>

\* floor(m / 2^n) of a two-limb natural
LShr(m, n) ==
    IF n >= 54 THEN <<0, 0>>
    ELSE IF n >= 27 THEN <<0, m[1] \div 2^(n - 27)>>
    ELSE <<m[1] \div 2^n, ((m[1] % 2^n) * 2^(27 - n)) + (m[2] \div 2^n)>>

\* m * 2^n of a two-limb natural, the product below 2^54
LShl(m, n) ==
    IF n >= 27 THEN <<m[2] * 2^(n - 27), 0>>
    ELSE <<(m[1] * 2^n) + (m[2] \div 2^(27 - n)), (m[2] % 2^(27 - n)) * 2^n>>

\* the number of bits of n, 0 < n < 2^27
BitLen(n) == CHOOSE b \in 1..27 : 2^(b - 1) <= n /\ n < 2^b

\* float(n) for an integer n, |n| < 2^27: exact
FFromInt(n) ==
    IF n = 0 THEN FZero
    ELSE LET k == 53 - BitLen(Abs(n))
         IN  FNum(Sign(n), LShl(<<0, Abs(n)>>, k), -k)

\* long division: `bits` further quotient bits of rem / d, rem < d
RECURSIVE DivBits(_, _, _, _)
DivBits(q, rem, d, bits) ==
    IF bits = 0 THEN <<q, rem>>
    ELSE Let(LDbl(rem), LAMBDA r2 :
         Let(LDbl(q), LAMBDA q2 :
             IF LGe(r2, d)
             THEN DivBits(LInc(q2), LSub(r2, d), d, bits - 1)
             ELSE DivBits(q2, r2, d, bits - 1)))

\* the same, eight bits at a time
RECURSIVE DivChunks(_, _, _, _)
DivChunks(q, rem, d, bits) ==
    IF bits <= 8 THEN DivBits(q, rem, d, bits)
    ELSE Let(DivBits(q, rem, d, 8), LAMBDA s :
             DivChunks(s[1], s[2], d, bits - 8))

\* round the truncated quotient q (remainder rem of divisor d) to nearest even
RoundQuotient(q, rem, d, e) ==
    LET r2 == LDbl(rem)
        up == IF r2 = d THEN q[2] % 2 = 1 ELSE LGe(r2, d)
        q1 == IF up THEN LInc(q) ELSE q
    IN  IF q1[1] >= HiMax THEN <<LHalf(q1), e + 1>> ELSE <<q1, e>>

\* a / b on doubles, b # 0.0
FDivide(a, b) ==
    IF a.k = "nan" \/ b.k = "nan" THEN FNaN
    ELSE IF a.k = "zero" THEN FZero
    ELSE LET ma == <<a.hi, a.lo>>
             mb == <<b.hi, b.lo>>
             ge == LGe(ma, mb)
             e0 == IF ge THEN a.e - b.e - 52 ELSE a.e - b.e - 53
         IN  Let(IF ge THEN DivChunks(<<0, 1>>, LSub(ma, mb), mb, 52)
                 ELSE DivChunks(<<0, 0>>, ma, mb, 53), LAMBDA qr :
             Let(RoundQuotient(qr[1], qr[2], mb, e0), LAMBDA r :
                 FNum(a.sg * b.sg, r[1], r[2])))

\* the numbers the model draws for matrix cells and for z_min, z_max, and
\* the table sizes less one
ZValues == {0, 16, 33, 66}
LevelSteps == {255, 1020, 65535}

\* the quotients of the doubles the model meets, computed once
ZDiffs == {FFromInt(x - y) : x \in ZValues, y \in ZValues}
Deltas == {FDivide(r, FFromInt(n)) : r \in ZDiffs, n \in LevelSteps} \ {FZero}
Quotients ==
    [p \in (ZDiffs \X {FFromInt(n) : n \in LevelSteps}) \cup (ZDiffs \X Deltas)
        |-> FDivide(p[1], p[2])] @@ <<>>

\* a / b on doubles; the caller raises ZeroDivisionError for b = 0.0
FDiv(a, b) ==
    IF <<a, b>> \in DOMAIN Quotients THEN Quotients[<<a, b>>] ELSE FDivide(a, b)

\* a < b on doubles (false when either is NaN)
FLess(a, b) ==
    IF a.k = "nan" \/ b.k = "nan" THEN FALSE
    ELSE IF a.sg # b.sg THEN a.sg < b.sg
    ELSE IF a.sg = 0 THEN FALSE
    ELSE LET magLess(x, y) ==
                 x.e < y.e \/ (x.e = y.e /\ ~LGe(<<x.hi, x.lo>>, <<y.hi, y.lo>>))
         IN  IF a.sg = 1 THEN magLess(a, b) ELSE magLess(b, a)

\* int(x) for a double x, |x| < 2^27: truncation
FTrunc(x) ==
    IF x.k = "zero" THEN 0
    ELSE x.sg * LShr(<<x.hi, x.lo>>, -x.e)[2]

\* round(x) for a double x, 0 <= x < 2^27: nearest integer, ties to even
FRound(x) ==
    IF x.k = "zero" \/ x.e >= 0 THEN FTrunc(x)
    ELSE IF -x.e > 54 THEN 0
    ELSE LET m    == <<x.hi, x.lo>>
             t    == LShr(m, -x.e - 1)
             ip   == LHalf(t)[2]
             half == t[2] % 2 = 1
             rest == LShl(t, -x.e - 1) # m
             up   == half /\ (rest \/ ip % 2 = 1)
         IN  x.sg * (IF up THEN ip + 1 ELSE ip)

\* numpy.clip(x, lo, hi) on a double and two integers; NaN passes through
FClip(x, lo, hi) ==
    IF x.k = "nan" THEN x
    ELSE IF FLess(x, FFromInt(lo)) THEN FFromInt(lo)
    ELSE IF FLess(FFromInt(hi), x) THEN FFromInt(hi)
    ELSE x

(***************************************************************************)
(* Text and byte strings.                                                  *)
(***************************************************************************)
Ok(v) == [err |-> "none", v |-> v]
Raise(e) == [err |-> e, v |-> <<>>]

RECURSIVE Concat(_)
Concat(ss) == IF ss = <<>> THEN <<>> ELSE Head(ss) \o Concat(Tail(ss))

\* str.encode("latin_1"), str.encode("ascii"): one byte per code point
EncodeLatin1(s) ==
    IF \A i \in 1..Len(s) : s[i] <= 255 THEN Ok(s) ELSE Raise("UnicodeEncodeError")
EncodeAscii(s) ==
    IF \A i \in 1..Len(s) : s[i] <= 127 THEN Ok(s) ELSE Raise("UnicodeEncodeError")

\* str.encode("utf-8"), code points below 2^16 (no surrogates drawn)
Utf8Bytes(c) ==
    IF c < 128 THEN <<c>>
    ELSE IF c < 2048 THEN <<192 + (c \div 64), 128 + (c % 64)>>
    ELSE <<224 + (c \div 4096), 128 + ((c \div 64) % 64), 128 + (c % 64)>>
EncodeUtf8(s) == Concat([i \in 1..Len(s) |-> Utf8Bytes(s[i])])

\* bytes.decode("latin_1"): every byte is a code point
DecodeLatin1(b) == Ok(b)
\* bytes.decode("ascii")
DecodeAscii(b) ==
    IF \A i \in 1..Len(b) : b[i] <= 127 THEN Ok(b) ELSE Raise("UnicodeDecodeError")

\* bytes.decode("utf-8"): one-, two- and three-byte sequences
IsCont(x) == x >= 128 /\ x <= 191
RECURSIVE Utf8Decode(_)
Utf8Decode(b) ==
    IF b = <<>> THEN Ok(<<>>)
    ELSE LET n == IF b[1] < 128 THEN 1
                  ELSE IF b[1] >= 194 /\ b[1] <= 223 THEN 2
                  ELSE IF b[1] >= 224 /\ b[1] <= 239 THEN 3
                  ELSE 0
         IN  IF n = 0 \/ Len(b) < n \/ \E i \in 2..n : ~IsCont(b[i])
             THEN Raise("UnicodeDecodeError")
             ELSE LET c == IF n = 1 THEN b[1]
                           ELSE IF n = 2 THEN (b[1] - 192) * 64 + (b[2] - 128)
                           ELSE (b[1] - 224) * 4096 + (b[2] - 128) * 64 + (b[3] - 128)
                      rest == Utf8Decode(SubSeq(b, n + 1, Len(b)))
                  IN  IF (n = 2 /\ c < 128) \/ (n = 3 /\ c < 2048)
                         \/ (c >= 55296 /\ c <= 57343)
                      THEN Raise("UnicodeDecodeError")
                      ELSE IF rest.err # "none" THEN rest
                      ELSE Ok(<<c>> \o rest.v)
DecodeUtf8(b) == Utf8Decode(b)

\* bytes.split(b"\x00", maxsplit): at most maxsplit + 1 parts
RECURSIVE SplitNul(_, _)
SplitNul(s, maxsplit) ==
    IF maxsplit = 0 \/ \A i \in 1..Len(s) : s[i] # 0 THEN <<s>>
    ELSE LET i == CHOOSE j \in 1..Len(s) :
                      s[j] = 0 /\ \A h \in 1..(j - 1) : s[h] # 0
         IN  <<SubSeq(s, 1, i - 1)>>
                 \o SplitNul(SubSeq(s, i + 1, Len(s)), maxsplit - 1)

\* b"\x00".join(parts)
RECURSIVE JoinNul(_)
JoinNul(parts) ==
    IF Len(parts) = 0 THEN <<>>
    ELSE IF Len(parts) = 1 THEN parts[1]
    ELSE parts[1] \o <<0>> \o JoinNul(Tail(parts))

(***************************************************************************)
(* zlib (an external library).  A compressed string is modelled by the     *)
(* stored-block form of the zlib stream, the bytes zlib.compress(data, 0)  *)
(* emits: two header bytes, one stored deflate block (final-block byte,    *)
(* LEN, its complement NLEN, the data) and the big-endian Adler-32 of the  *)
(* data; the entropy coding of deflate is left out.  Decompression accepts *)
(* exactly such streams.                                                   *)
(***************************************************************************)
RECURSIVE AdlerAB(_, _, _)
AdlerAB(b, x, y) ==
    IF b = <<>> THEN <<x, y>>
    ELSE LET x2 == (x + Head(b)) % 65521
         IN  AdlerAB(Tail(b), x2, (y + x2) % 65521)

Adler32(b) ==
    LET r == AdlerAB(b, 1, 0)
    IN  <<r[2] \div 256, r[2] % 256, r[1] \div 256, r[1] % 256>>

ZlibCompress(b) ==
    <<120, 1, 1>>
        \o <<Len(b) % 256, Len(b) \div 256>>
        \o <<255 - (Len(b) % 256), 255 - (Len(b) \div 256)>>
        \o b \o Adler32(b)

ZlibDecompress(z) ==
    IF Len(z) < 11 THEN Raise("zlib.error")
    ELSE LET n    == z[4] + 256 * z[5]
             data == SubSeq(z, 8, Len(z) - 4)
         IN  IF /\ z[1] = 120 /\ z[2] = 1 /\ z[3] = 1
                /\ z[6] = 255 - z[4] /\ z[7] = 255 - z[5]
                /\ Len(z) = n + 11
                /\ SubSeq(z, Len(z) - 3, Len(z)) = Adler32(data)
             THEN Ok(data)
             ELSE Raise("zlib.error")

(***************************************************************************)
(* ChunkITXT (_pngTextChunks.py)                                           *)
(***************************************************************************)
\* "en-us"
LangEnUs == <<101, 110, 45, 117, 115>>

NoChunk == [keyword |-> <<>>, compressed |-> -1, compression_method |-> -1,
            lang |-> <<>>, translated_keyword |-> <<>>, text |-> <<>>]

\* ChunkITXT._split_chunkdata: an index past the end raises IndexError
split_chunkdata(s) ==
    LET t == SplitNul(s, 1)
    IN  IF Len(t) < 2 \/ Len(t[2]) < 2 THEN Raise("IndexError")
        ELSE LET u == SplitNul(SubSeq(t[2], 3, Len(t[2])), 2)
             IN  IF Len(u) < 3 THEN Raise("IndexError")
                 ELSE Ok([keyword |-> t[1],
                          compressed |-> t[2][1],
                          compressionMethod |-> t[2][2],
                          language |-> u[1],
                          translatedKeyword |-> u[2],
                          text |-> u[3]])

\* ChunkITXT.__init__, the branch that parses chunk_data: the fields decoded
\* from the parts r of the split
ChunkFromParts(r) ==
    Let(DecodeLatin1(r.keyword), LAMBDA kw :
    Let(DecodeAscii(r.language), LAMBDA lang :
    Let(DecodeUtf8(r.translatedKeyword), LAMBDA tkw :
    Let(IF r.compressed # 0
        THEN (IF r.compressionMethod # 0
              THEN Raise("AssertionError")
              ELSE ZlibDecompress(r.text))
        ELSE Ok(r.text), LAMBDA raw :
    Let(IF raw.err # "none" THEN raw ELSE DecodeUtf8(raw.v), LAMBDA text :
        IF lang.err # "none" THEN [err |-> lang.err, v |-> NoChunk]
        ELSE IF tkw.err # "none" THEN [err |-> tkw.err, v |-> NoChunk]
        ELSE IF text.err # "none" THEN [err |-> text.err, v |-> NoChunk]
        ELSE [err |-> "none",
              v |-> [keyword |-> kw.v,
                     compressed |-> r.compressed,
                     compression_method |-> r.compressionMethod,
                     lang |-> lang.v,
                     translated_keyword |-> tkw.v,
                     text |-> text.v]])))))
ChunkFromData(d) ==
    Let(split_chunkdata(d), LAMBDA t :
        IF t.err # "none" THEN [err |-> t.err, v |-> NoChunk]
        ELSE ChunkFromParts(t.v))

\* ChunkITXT.__init__, the branch that initializes a new chunk
ChunkDefault(keyword, text) ==
    [keyword |-> keyword, compressed |-> 1, compression_method |-> 0,
     lang |-> LangEnUs, translated_keyword |-> keyword, text |-> text]

\* ChunkITXT.__init__(chunk_data, keyword, text); given is FALSE for
\* chunk_data=None
ChunkInit(given, chunk_data, keyword, text) ==
    IF given /\ Len(chunk_data) > 0 THEN ChunkFromData(chunk_data)
    ELSE [err |-> "none", v |-> ChunkDefault(keyword, text)]

\* ChunkITXT.pack: joining a str payload to bytes raises TypeError
pack(c) ==
    IF c.compressed # 0 /\ c.compression_method # 0 THEN Raise("AssertionError")
    ELSE LET kw  == EncodeLatin1(c.keyword)
             lng == EncodeAscii(c.lang)
             flg == EncodeUtf8(<<c.compressed, c.compression_method>>)
         IN  IF kw.err # "none" THEN kw
             ELSE IF lng.err # "none" THEN lng
             ELSE IF c.compressed = 0 THEN Raise("TypeError")
             ELSE Ok(JoinNul(<<kw.v,
                               flg \o lng.v,
                               EncodeUtf8(c.translated_keyword),
                               ZlibCompress(EncodeUtf8(c.text))>>))

\* "iTXt"
TagITXT == <<105, 84, 88, 116>>

\* ChunkITXT.get_chunk
get_chunk(c) ==
    LET p == pack(c)
    IN  [err |-> p.err, v |-> [tag |-> TagITXT, data |-> p.v]]

\* ChunkITXT.get_chunkdata
get_chunkdata(c) ==
    [keyword |-> c.keyword,
     compressed |-> c.compressed # 0,
     compressionMethod |-> c.compression_method,
     language |-> c.lang,
     translatedKeyword |-> c.translated_keyword,
     text |-> c.text]

(***************************************************************************)
(* Python values held in the scale dictionary and in matrix cells.  A      *)
(* float is integer-valued (n) or a NaN; n = 1 marks the NaN that is the   *)
(* object numpy.nan itself, n = 0 any other NaN.                           *)
(***************************************************************************)
None == [t |-> "None", n |-> 0, s |-> <<>>]
PyInt(n) == [t |-> "int", n |-> n, s |-> <<>>]
PyFloat(n) == [t |-> "float", n |-> n, s |-> <<>>]
PyStr(s) == [t |-> "str", n |-> 0, s |-> s]
NpNan == [t |-> "nan", n |-> 1, s |-> <<>>]
OtherNan == [t |-> "nan", n |-> 0, s |-> <<>>]

IsDigit(c) == c >= 48 /\ c <= 57
RECURSIVE Digits(_)
Digits(n) == IF n < 10 THEN <<48 + n>> ELSE Digits(n \div 10) \o <<48 + (n % 10)>>
RECURSIVE DigitsValue(_)
DigitsValue(s) ==
    IF s = <<>> THEN 0 ELSE (10 * DigitsValue(SubSeq(s, 1, Len(s) - 1))) + (s[Len(s)] - 48)

\* str(x)
PyToStr(x) ==
    CASE x.t = "None"  -> <<78, 111, 110, 101>>
      [] x.t = "nan"   -> <<110, 97, 110>>
      [] x.t = "str"   -> x.s
      [] x.t = "int"   -> (IF x.n < 0 THEN <<45>> ELSE <<>>) \o Digits(Abs(x.n))
      [] x.t = "float" -> (IF x.n < 0 THEN <<45>> ELSE <<>>) \o Digits(Abs(x.n))
                              \o <<46, 48>>

\* the literal without a leading sign, and the sign; the texts the model draws
\* hold no white space, underscore or exponent
Unsigned(s) == IF s # <<>> /\ s[1] \in {43, 45} THEN Tail(s) ELSE s
SignOf(s) == IF s # <<>> /\ s[1] = 45 THEN -1 ELSE 1
AllDigits(s) == \A i \in 1..Len(s) : IsDigit(s[i])

\* int(text)
ParseInt(s) ==
    LET u == Unsigned(s)
    IN  IF u # <<>> /\ AllDigits(u) THEN Ok(PyInt(SignOf(s) * DigitsValue(u)))
        ELSE Raise("ValueError")

\* a float() that accepts no text
ParseFloatRejects(s) == Raise("ValueError")

\* float(text): digits with an optional point and fraction, or "nan"; a
\* fraction of zeros only is all the texts of the model hold
ParseFloat(s) ==
    LET u   == Unsigned(s)
        dot == {i \in 1..Len(u) : u[i] = 46}
    IN  IF u = <<110, 97, 110>> THEN Ok(OtherNan)
        ELSE IF dot = {} THEN
            (IF u # <<>> /\ AllDigits(u) THEN Ok(PyFloat(SignOf(s) * DigitsValue(u)))
             ELSE Raise("ValueError"))
        ELSE LET i  == CHOOSE j \in dot : TRUE
                 ip == SubSeq(u, 1, i - 1)
                 fp == SubSeq(u, i + 1, Len(u))
             IN  IF /\ Cardinality(dot) = 1 /\ AllDigits(ip) /\ AllDigits(fp)
                    /\ Len(ip) + Len(fp) > 0
                    /\ \A j \in 1..Len(fp) : fp[j] = 48
                 THEN Ok(PyFloat(SignOf(s) * DigitsValue(ip)))
                 ELSE Raise("ValueError")

\* float(x)
ToFloat(x) ==
    CASE x.t = "None"  -> Raise("TypeError")
      [] x.t = "nan"   -> Ok(x)
      [] x.t = "float" -> Ok(x)
      [] x.t = "int"   -> Ok(PyFloat(x.n))
      [] x.t = "str"   -> ParseFloat(x.s)

(***************************************************************************)
(* ColorMaps (_colormaps.py): the table for a mode, bit depth and map      *)
(* name.  A table is identified by the arguments it was built from; a gray *)
(* table is the ramp of 2^bitdepth codes, the "ebb" table has a fixed      *)
(* number of entries scaled to the bit depth.                              *)
(***************************************************************************)
Ebb == <<101, 98, 98>>
EbbLevels == 1021

ColorMaps(mode, bd, colormap) == [mode |-> mode, bd |-> bd, colormap |-> colormap]

IsColor(mode) == mode \in {"RGB", "RGBA"}

\* len(table)
TableLen(cm) == IF IsColor(cm.mode) THEN EbbLevels ELSE 2^cm.bd

\* table[k]: the channel values of entry k, each a code of the bit depth
TableEntry(cm, k) ==
    IF IsColor(cm.mode)
    THEN LET v == (k * (2^cm.bd - 1)) \div (EbbLevels - 1)
         IN  <<v, v \div 2, v \div 4>>
    ELSE <<k>>

(***************************************************************************)
(* MatrixPNG (__init__.py)                                                 *)
(***************************************************************************)
Modes == {"L", "LA", "RGB", "RGBA"}
Bitdepths == {8, 16}

ScaleKeys == <<"z_min", "z_max", "z_units", "x_min", "x_max", "x_units",
               "y_min", "y_max", "y_units">>
KeySet == {ScaleKeys[i] : i \in 1..Len(ScaleKeys)}

\* the key names as text
KeyText(k) ==
    CASE k = "z_min"   -> <<122, 95, 109, 105, 110>>
      [] k = "z_max"   -> <<122, 95, 109, 97, 120>>
      [] k = "z_units" -> <<122, 95, 117, 110, 105, 116, 115>>
      [] k = "x_min"   -> <<120, 95, 109, 105, 110>>
      [] k = "x_max"   -> <<120, 95, 109, 97, 120>>
      [] k = "x_units" -> <<120, 95, 117, 110, 105, 116, 115>>
      [] k = "y_min"   -> <<121, 95, 109, 105, 110>>
      [] k = "y_max"   -> <<121, 95, 109, 97, 120>>
      [] k = "y_units" -> <<121, 95, 117, 110, 105, 116, 115>>
KwColormap == <<99, 111, 108, 111, 114, 109, 97, 112>>
KwYAscend == <<121, 95, 97, 115, 99, 101, 110, 100>>
TextUp == <<117, 112>>
TextDown == <<100, 111, 119, 110>>

\* len(mode) and len(mode.rstrip('A'))
ModeLen(mode) == CASE mode = "L" -> 1 [] mode = "LA" -> 2 [] mode = "RGB" -> 3 [] mode = "RGBA" -> 4
Channels(mode) == IF IsColor(mode) THEN 3 ELSE 1

\* a matrix is a sequence of rows of equal length
Cells(matrix) == {matrix[i][j] : i \in 1..Len(matrix), j \in 1..Len(matrix[1])}
SetMin(S) == CHOOSE x \in S : \A y \in S : x <= y
SetMax(S) == CHOOSE x \in S : \A y \in S : x >= y

\* matrix.min(), matrix.max(): numpy propagates NaN
MatrixMin(matrix) ==
    IF \E c \in Cells(matrix) : c.t = "nan" THEN OtherNan
    ELSE PyFloat(SetMin({c.n : c \in Cells(matrix)}))
MatrixMax(matrix) ==
    IF \E c \in Cells(matrix) : c.t = "nan" THEN OtherNan
    ELSE PyFloat(SetMax({c.n : c \in Cells(matrix)}))

\* a - b on floats
PySub(a, b) == IF a.t = "nan" \/ b.t = "nan" THEN OtherNan ELSE PyFloat(a.n - b.n)
\* the binary64 form of a float
ToB64(x) == IF x.t = "nan" THEN FNaN ELSE FFromInt(x.n)

FUnset == [k |-> "unset", sg |-> 0, hi |-> 0, lo |-> 0, e |-> 0]

\* MatrixPNG._setup_quantization: z_min and z_max become floats one after the
\* other, then the delta is computed
setup_quantization(sc, delta, levels) ==
    LET zmin == ToFloat(sc["z_min"])
        sc1  == IF zmin.err = "none" THEN [sc EXCEPT !["z_min"] = zmin.v] ELSE sc
        zmax == ToFloat(sc["z_max"])
        sc2  == IF zmax.err = "none" THEN [sc1 EXCEPT !["z_max"] = zmax.v] ELSE sc1
    IN  IF zmin.err # "none" THEN [err |-> zmin.err, scale |-> sc, delta |-> delta]
        ELSE IF zmax.err # "none" THEN [err |-> zmax.err, scale |-> sc1, delta |-> delta]
        ELSE IF levels - 1 = 0
             THEN [err |-> "ZeroDivisionError", scale |-> sc2, delta |-> delta]
        ELSE [err |-> "none", scale |-> sc2,
              delta |-> FDiv(ToB64(PySub(zmax.v, zmin.v)), FFromInt(levels - 1))]

\* MatrixPNG._setminmax
setminmax(sc, delta, levels, matrix) ==
    LET dflt(k, v) == IF sc[k] = None THEN v ELSE sc[k]
        sc1 == [sc EXCEPT !["z_min"] = dflt("z_min", MatrixMin(matrix)),
                          !["z_max"] = dflt("z_max", MatrixMax(matrix)),
                          !["x_min"] = dflt("x_min", PyInt(0)),
                          !["x_max"] = dflt("x_max", PyInt(Len(matrix))),
                          !["y_min"] = dflt("y_min", PyInt(0)),
                          !["y_max"] = dflt("y_max", PyInt(Len(matrix[1])))]
    IN  setup_quantization(sc1, delta, levels)

\* MatrixPNG._nan_value
nan_value(mode, bd) == IF Channels(mode) > 1 THEN (2^bd \div 2) - 1 ELSE 0

\* is the cell the object numpy.nan (matrix[i][j] is np.nan)
IsNpNan(cell) == cell = NpNan

\* the index k of a cell that is not numpy.nan, matrix2png lines 173-174
QuantIndex(cell, zmin, delta, levels) ==
    IF delta.k = "zero" THEN Raise("ZeroDivisionError")
    ELSE LET q == FClip(FDiv(ToB64(PySub(cell, zmin)), delta), 0, levels - 1)
         IN  IF q.k = "nan" THEN Raise("ValueError") ELSE Ok(FTrunc(q))

\* list.append(x) in the place of list.insert(-1, x)
InsertAtEnd(list, x) == Append(list, x)

\* list.insert(-1, x): before the last element (at the front of an empty list)
InsertBeforeLast(list, x) ==
    IF list = <<>> THEN <<x>>
    ELSE SubSeq(list, 1, Len(list) - 1) \o <<x, list[Len(list)]>>

\* the chunks of the base image png.from_array(...).save() produces and
\* png.Reader.chunks() yields (pypng, external): header, pixel data, end
TagIHDR == <<73, 72, 68, 82>>
TagIDAT == <<73, 68, 65, 84>>
TagIEND == <<73, 69, 78, 68>>
make_png(arr, mode, bd) ==
    <<[tag |-> TagIHDR, data |-> <<Len(arr[1]), Len(arr), bd, ModeLen(mode)>>],
      [tag |-> TagIDAT, data |-> Concat([i \in 1..Len(arr) |-> Concat(arr[i])])],
      [tag |-> TagIEND, data |-> <<>>]>>

\* the iTXt chunks _save_png inserts, one insert(-1, ...) after the other
RECURSIVE InsertScale(_, _, _)
InsertScale(chunklist, sc, i) ==
    IF i > Len(ScaleKeys) THEN chunklist
    ELSE Let(InsertBeforeLast(chunklist,
                 get_chunk(ChunkInit(FALSE, <<>>, KeyText(ScaleKeys[i]),
                                     PyToStr(sc[ScaleKeys[i]])).v).v),
             LAMBDA c : InsertScale(c, sc, i + 1))

\* MatrixPNG._save_png: the chunk list handed to png.write_chunks
save_png(base, sc, mode, colormap, y_invert) ==
    Let(InsertScale(base, sc, 1), LAMBDA c1 :
    Let(IF IsColor(mode)
        THEN InsertBeforeLast(c1,
                 get_chunk(ChunkInit(FALSE, <<>>, KwColormap, colormap).v).v)
        ELSE c1, LAMBDA c2 :
        InsertBeforeLast(c2,
            get_chunk(ChunkInit(FALSE, <<>>, KwYAscend,
                                IF y_invert THEN TextUp ELSE TextDown).v).v)))

NoIndex == -2
NanIndex == -1

\* the loop of matrix2png over the cells, row by row: the index of each cell
\* (NanIndex for numpy.nan, NoIndex for a cell not reached) and the exception
\* that ended the loop
RECURSIVE CellLoop(_, _, _, _, _)
CellLoop(cells, zmin, delta, levels, done) ==
    IF cells = <<>> THEN [err |-> "none", idx |-> done]
    ELSE Let(IF IsNpNan(Head(cells)) THEN Ok(NanIndex)
             ELSE QuantIndex(Head(cells), zmin, delta, levels), LAMBDA r :
             IF r.err # "none"
             THEN [err |-> r.err,
                   idx |-> done \o [i \in 1..Len(cells) |-> NoIndex]]
             ELSE CellLoop(Tail(cells), zmin, delta, levels, Append(done, r.v)))

\* the pixel of a cell: the palette entry or the NaN code in the colour
\* channels, full opacity in the alpha channel
Pixel(mode, bd, cm, k) ==
    [c \in 1..ModeLen(mode) |->
        IF c > Channels(mode) THEN 2^bd - 1
        ELSE IF k = NanIndex THEN nan_value(mode, bd)
        ELSE TableEntry(cm, k)[c]] \o <<>>

\* numpy.transpose(arr, axes=(1, 0, 2)) and numpy.flipud(arr)
Transpose(arr) ==
    [j \in 1..Len(arr[1]) |-> [i \in 1..Len(arr) |-> arr[i][j]] \o <<>>] \o <<>>
FlipUd(arr) == [i \in 1..Len(arr) |-> arr[Len(arr) + 1 - i]] \o <<>>

\* MatrixPNG.matrix2png: the scale and delta it leaves, the exception it ends
\* with, the indices it computed, the pixel array _arr after the loop (px) and
\* after transposing and flipping (arr), and the chunks it wrote
matrix2png(mode, bd, cm, sc, delta, y_invert, colormap, matrix, x_axis_first) ==
    Let(setminmax(sc, delta, TableLen(cm), matrix), LAMBDA q :
        IF q.err # "none"
        THEN [err |-> q.err, scale |-> q.scale, delta |-> q.delta,
              idx |-> <<>>, px |-> <<>>, arr |-> <<>>, chunks |-> <<>>]
        ELSE
    Let(CellLoop(Concat(matrix), q.scale["z_min"], q.delta, TableLen(cm), <<>>),
        LAMBDA loop :
    Let([i \in 1..Len(matrix) |->
            SubSeq(loop.idx, ((i - 1) * Len(matrix[1])) + 1, i * Len(matrix[1]))]
            \o <<>>, LAMBDA idx :
        IF loop.err # "none"
        THEN [err |-> loop.err, scale |-> q.scale, delta |-> q.delta,
              idx |-> idx, px |-> <<>>, arr |-> <<>>, chunks |-> <<>>]
        ELSE
    Let([i \in 1..Len(idx) |->
            [j \in 1..Len(idx[i]) |-> Pixel(mode, bd, cm, idx[i][j])] \o <<>>]
            \o <<>>, LAMBDA arr0 :
    Let(IF x_axis_first THEN Transpose(arr0) ELSE arr0, LAMBDA arr1 :
    Let(IF y_invert THEN FlipUd(arr1) ELSE arr1, LAMBDA arr2 :
        [err |-> "none", scale |-> q.scale, delta |-> q.delta,
         idx |-> idx, px |-> arr0, arr |-> arr2,
         chunks |-> save_png(make_png(arr2, mode, bd), q.scale, mode,
                             colormap, y_invert)]))))))

\* c[0].lower(); the reader is taken to yield chunk types that compare equal
\* to text, as png2matrix expects
Lower(tag) == [i \in 1..Len(tag) |-> IF tag[i] >= 65 /\ tag[i] <= 90 THEN tag[i] + 32 ELSE tag[i]]

\* the value png2matrix stores for a scale text: int, else float, else text
CastText(text) ==
    IF ParseInt(text).err = "none" THEN ParseInt(text).v
    ELSE IF ParseFloat(text).err = "none" THEN ParseFloat(text).v
    ELSE PyStr(text)

\* the body of the loop of png2matrix for the decoded chunk data cd
StoreChunkData(cd, st) ==
    LET key == {k \in KeySet : KeyText(k) = cd.keyword}
    IN  IF key # {}
        THEN [st EXCEPT !.scale[CHOOSE k \in key : TRUE] = CastText(cd.text)]
        ELSE IF cd.keyword = KwColormap THEN [st EXCEPT !.colormap = cd.text]
        ELSE IF cd.keyword = KwYAscend /\ cd.text = TextDown
        THEN [st EXCEPT !.y_invert = FALSE]
        ELSE IF cd.keyword = KwYAscend /\ cd.text = TextUp
        THEN [st EXCEPT !.y_invert = TRUE]
        ELSE st

\* the body of the loop of png2matrix for the chunk c
ReadChunk(c, st) ==
    IF Lower(c.tag) # Lower(TagITXT) THEN st
    ELSE Let(ChunkInit(TRUE, c.data, <<>>, <<>>), LAMBDA obj :
             IF obj.err # "none" THEN [st EXCEPT !.err = obj.err]
             ELSE StoreChunkData(get_chunkdata(obj.v), st))

\* the loop of png2matrix over the chunks of the file
RECURSIVE ReadChunks(_, _)
ReadChunks(chunks, st) ==
    IF chunks = <<>> \/ st.err # "none" THEN st
    ELSE Let(ReadChunk(Head(chunks), st), LAMBDA st1 :
             ReadChunks(Tail(chunks), st1))

\* MatrixPNG.png2matrix
png2matrix(mode, bd, cm, sc, delta, y_invert, colormap, chunks) ==
    Let(ReadChunks(chunks, [err |-> "none", scale |-> sc,
                            colormap |-> colormap, y_invert |-> y_invert]),
        LAMBDA st :
        IF st.err # "none"
        THEN [err |-> st.err, scale |-> st.scale, colormap |-> st.colormap,
              y_invert |-> st.y_invert, cm |-> cm, delta |-> delta]
        ELSE
    Let(setup_quantization(st.scale, delta,
                           TableLen(ColorMaps(mode, bd, st.colormap))),
        LAMBDA q :
        [err |-> q.err, scale |-> q.scale, colormap |-> st.colormap,
         y_invert |-> st.y_invert, cm |-> ColorMaps(mode, bd, st.colormap),
         delta |-> q.delta]))

(***************************************************************************)
(* The inputs the model draws.                                             *)
(***************************************************************************)
TextK == <<75>>
Text5 == <<53>>

\* the arguments of a set_scaling call (None: not given)
ScalingCall(a, b, u, y) == [z_min |-> a, z_max |-> b, z_units |-> u, y_ascend_up |-> y]
ScalingCalls ==
    ({ScalingCall(a, b, None, "None") :
        a \in {None, PyInt(0), PyFloat(33)}, b \in {None, PyFloat(33)}}
            \ {ScalingCall(None, None, None, "None")})
        \cup {ScalingCall(a, a, PyStr(u), "None") : a \in {None}, u \in {TextK, Text5}}
        \cup {ScalingCall(PyInt(0), PyFloat(33), PyStr(u), "None") : u \in {TextK, Text5}}
        \cup {ScalingCall(None, None, None, "False")}

CellValues == {PyFloat(n) : n \in ZValues \ {0}} \cup {NpNan, OtherNan}

\* 1x1 and 1x2 matrices.  A matrix holding numpy.nan itself is an object
\* array, whose min() and max() agree with NaN propagation when no number
\* follows a NaN: the others are not drawn.
Matrices ==
    {<<<<a>>>> : a \in CellValues}
        \cup {<<<<PyFloat(16), b>>>> : b \in CellValues}
        \cup {<<<<PyFloat(33), PyFloat(66)>>>>}

\* the arguments of a matrix2png call: x_axis_first is left at its default
\* but for two matrices
WriteCalls ==
    (Matrices \X {TRUE})
        \cup ({<<<<PyFloat(16), PyFloat(33)>>>>, <<<<PyFloat(16), NpNan>>>>} \X {FALSE})

ChunkBytes == {0, 1, 97}
RECURSIVE ByteStrings(_)
ByteStrings(n) ==
    IF n = 0 THEN {<<>>}
    ELSE LET S == ByteStrings(n - 1)
         IN  S \cup {Append(b, x) : b \in {t \in S : Len(t) = n - 1}, x \in ChunkBytes}
ChunkTexts == {<<>>, <<101>>, <<233>>, <<0>>, <<8364>>}

(***************************************************************************)
(* State.                                                                  *)
(***************************************************************************)
VARIABLES
    png_mode,       \* self._png["mode"]
    png_bitdepth,   \* self._png["bitdepth"]
    png_colormap,   \* self._png["colormap"]
    scale,          \* self._scale
    y_invert,       \* self._y_invert
    colormap,       \* self._colormap
    quantization_delta,  \* self._quantization_delta
    file,           \* the chunks of the file last written, <<>> before
    written,        \* self._scale as the file last written was saved
    zgiven,         \* has a caller or a file read given z_min or z_max
    last,           \* the last operation: its inputs, exception and locals
    ops,            \* operations performed
    chunk,          \* a ChunkITXT object
    chunk_data,     \* the bytes its constructor was given
    packed,         \* what pack() of it returned or raised
    decoded,        \* the ChunkITXT built from the packed bytes
    cphase          \* the last ChunkITXT operation

pngvars == <<png_mode, png_bitdepth, png_colormap, scale, y_invert, colormap,
             quantization_delta, file, written, zgiven, last, ops>>
chunkvars == <<chunk, chunk_data, packed, decoded, cphase>>
vars == <<pngvars, chunkvars>>

quantization_levels == TableLen(png_colormap)

NoLast == [op |-> "init", err |-> "none", matrix |-> <<>>, zmin |-> None,
           zmax |-> None, levels |-> 0, idx |-> <<>>, px |-> <<>>, arr |-> <<>>,
           image |-> FALSE]

ChunkInit0 ==
    /\ chunk = [err |-> "none", v |-> NoChunk]
    /\ chunk_data = <<>>
    /\ packed = Raise("none")
    /\ decoded = [err |-> "none", v |-> NoChunk]
    /\ cphase = "none"

\* MatrixPNG.__init__(mode, bitdepth): the scale unset, y ascending upward
PngInit(mode, bd) ==
    /\ png_mode = mode
    /\ png_bitdepth = bd
    /\ png_colormap = ColorMaps(mode, bd, Ebb)
    /\ scale = [k \in KeySet |-> None]
    /\ y_invert = TRUE
    /\ colormap = Ebb
    /\ quantization_delta = FUnset
    /\ file = <<>>
    /\ written = [k \in KeySet |-> None]
    /\ zgiven = FALSE
    /\ last = NoLast
    /\ ops = 0

Init ==
    /\ \E c \in {<<"RGB", 8>>, <<"L", 16>>} : PngInit(c[1], c[2])
    /\ ChunkInit0

\* mode.setter
SetMode(m) ==
    /\ ops < MaxOps
    /\ ops' = ops + 1
    /\ IF m \notin Modes
       THEN /\ last' = [NoLast EXCEPT !.op = "mode", !.err = "ValueError"]
            /\ UNCHANGED <<png_mode, png_colormap>>
       ELSE /\ png_mode' = m
            /\ png_colormap' = ColorMaps(m, png_bitdepth, colormap)
            /\ last' = [NoLast EXCEPT !.op = "mode"]
    /\ UNCHANGED <<png_bitdepth, scale, y_invert, colormap, quantization_delta,
                   file, written, zgiven, chunkvars>>

\* bitdepth.setter
SetBitdepth(bd) ==
    /\ ops < MaxOps
    /\ ops' = ops + 1
    /\ IF bd \notin Bitdepths
       THEN /\ last' = [NoLast EXCEPT !.op = "bitdepth", !.err = "ValueError"]
            /\ UNCHANGED png_bitdepth
       ELSE /\ png_bitdepth' = bd
            /\ last' = [NoLast EXCEPT !.op = "bitdepth"]
    /\ UNCHANGED <<png_mode, png_colormap, scale, y_invert, colormap,
                   quantization_delta, file, written, zgiven, chunkvars>>

\* set_scaling
SetScaling(a) ==
    /\ ops < MaxOps
    /\ ops' = ops + 1
    /\ scale' = [scale EXCEPT
                    !["z_min"] = IF a.z_min # None THEN a.z_min ELSE @,
                    !["z_max"] = IF a.z_max # None THEN a.z_max ELSE @,
                    !["z_units"] = IF a.z_units # None THEN a.z_units ELSE @]
    /\ y_invert' = IF a.y_ascend_up # "None" THEN a.y_ascend_up = "True" ELSE y_invert
    /\ zgiven' = (zgiven \/ a.z_min # None \/ a.z_max # None)
    /\ last' = [NoLast EXCEPT !.op = "scaling"]
    /\ UNCHANGED <<png_mode, png_bitdepth, png_colormap, colormap,
                   quantization_delta, file, written, chunkvars>>

\* matrix2png(matrix, file, x_axis_first)
Matrix2Png(matrix, x_axis_first) ==
    /\ ops < MaxOps
    /\ ops' = ops + 1
    /\ \E r \in {matrix2png(png_mode, png_bitdepth, png_colormap, scale,
                            quantization_delta, y_invert, colormap, matrix,
                            x_axis_first)} :
           /\ scale' = r.scale
           /\ quantization_delta' = r.delta
           /\ file' = IF r.err = "none" THEN r.chunks ELSE file
           /\ last' = [op |-> "write", err |-> r.err, matrix |-> matrix,
                       zmin |-> r.scale["z_min"], zmax |-> r.scale["z_max"],
                       levels |-> quantization_levels, idx |-> r.idx,
                       px |-> r.px, arr |-> r.arr, image |-> r.err = "none"]
           /\ written' = IF r.err = "none" THEN r.scale ELSE written
    /\ UNCHANGED <<png_mode, png_bitdepth, png_colormap, y_invert, colormap,
                   zgiven, chunkvars>>

\* pngfile2matrix(filename) of the file last written
Png2Matrix ==
    /\ ops < MaxOps
    /\ file # <<>>
    /\ ops' = ops + 1
    /\ \E r \in {png2matrix(png_mode, png_bitdepth, png_colormap, scale,
                            quantization_delta, y_invert, colormap, file)} :
           /\ scale' = r.scale
           /\ colormap' = r.colormap
           /\ y_invert' = r.y_invert
           /\ png_colormap' = r.cm
           /\ quantization_delta' = r.delta
           /\ last' = [NoLast EXCEPT !.op = "read", !.err = r.err]
    /\ zgiven' = TRUE
    /\ UNCHANGED <<png_mode, png_bitdepth, file, written, chunkvars>>

Next ==
    \/ \E m \in Modes \cup {"P"} : SetMode(m)
    \/ \E bd \in Bitdepths \cup {4} : SetBitdepth(bd)
    \/ \E a \in ScalingCalls : SetScaling(a)
    \/ \E w \in WriteCalls : Matrix2Png(w[1], w[2])
    \/ Png2Matrix

Spec == Init /\ [][Next]_vars

(***************************************************************************)
(* ChunkITXT on its own: one object is constructed, packed, and another    *)
(* constructed from the packed bytes.                                      *)
(***************************************************************************)
\* ChunkITXT(keyword=..., text=...)
ChunkNew(keyword, text) ==
    /\ cphase = "none"
    /\ chunk' = ChunkInit(FALSE, <<>>, keyword, text)
    /\ chunk_data' = <<>>
    /\ packed' = Raise("none")
    /\ decoded' = [err |-> "none", v |-> NoChunk]
    /\ cphase' = "new"
    /\ UNCHANGED pngvars

\* ChunkITXT(chunk_data)
ChunkParse(d) ==
    /\ cphase = "none"
    /\ chunk' = ChunkInit(TRUE, d, <<>>, <<>>)
    /\ chunk_data' = d
    /\ packed' = Raise("none")
    /\ decoded' = [err |-> "none", v |-> NoChunk]
    /\ cphase' = "parsed"
    /\ UNCHANGED pngvars

\* chunk.pack()
ChunkPack ==
    /\ cphase \in {"new", "parsed"}
    /\ chunk.err = "none"
    /\ packed' = pack(chunk.v)
    /\ cphase' = "packed"
    /\ UNCHANGED <<chunk, chunk_data, decoded, pngvars>>

\* ChunkITXT(chunk.pack())
ChunkDecode ==
    /\ cphase = "packed"
    /\ packed.err = "none"
    /\ decoded' = ChunkInit(TRUE, packed.v, <<>>, <<>>)
    /\ cphase' = "decoded"
    /\ UNCHANGED <<chunk, chunk_data, packed, pngvars>>

NextChunk ==
    \/ \E keyword \in ChunkTexts, text \in ChunkTexts : ChunkNew(keyword, text)
    \/ \E d \in ByteStrings(MaxChunkLen) : ChunkParse(d)
    \/ ChunkPack
    \/ ChunkDecode

InitChunk == PngInit("RGB", 8) /\ ChunkInit0

SpecChunk == InitChunk /\ [][NextChunk]_vars

(***************************************************************************)
(* The claims.                                                             *)
(***************************************************************************)
IsFloat(v) == v.t = "float"
IsNan(v) == v.t = "nan"
NumberCells(matrix) ==
    \A i \in 1..Len(matrix) : \A j \in 1..Len(matrix[i]) : IsFloat(matrix[i][j])
\* the last operation was a write that resolved z_min < z_max, both numbers
WroteInRange ==
    /\ last.op = "write"
    /\ IsFloat(last.zmin) /\ IsFloat(last.zmax)
    /\ last.zmin.n < last.zmax.n

\* C1: after construction and right after every successful assignment to
\* mode or bitdepth, the loaded colormap is the table of the current mode,
\* bit depth and colormap name, and quantization_levels is that table's length.
C1_ColormapResolved ==
    (last.op \in {"init", "mode", "bitdepth"} /\ last.err = "none") =>
        /\ png_colormap = ColorMaps(png_mode, png_bitdepth, colormap)
        /\ quantization_levels
               = TableLen(ColorMaps(png_mode, png_bitdepth, colormap))

\* C2: while z_min and z_max were never given, every successful write
\* quantizes with z_min and z_max the minimum and maximum of its own matrix.
C2_DefaultsPerWrite ==
    (last.op = "write" /\ last.err = "none" /\ ~zgiven
        /\ NumberCells(last.matrix)) =>
        /\ last.zmin = MatrixMin(last.matrix)
        /\ last.zmax = MatrixMax(last.matrix)

\* C3: with z_min < z_max and at least two levels, a write of numbers raises
\* nothing, every index lies in 0..levels-1, is 0 for a value <= z_min and
\* levels-1 for a value >= z_max.
C3_IndexClipped ==
    (WroteInRange /\ last.levels >= 2 /\ NumberCells(last.matrix)) =>
        /\ last.err = "none"
        /\ \A i \in 1..Len(last.matrix) : \A j \in 1..Len(last.matrix[i]) :
               /\ last.idx[i][j] \in 0..(last.levels - 1)
               /\ last.matrix[i][j].n <= last.zmin.n => last.idx[i][j] = 0
               /\ last.matrix[i][j].n >= last.zmax.n
                      => last.idx[i][j] = last.levels - 1

\* C4: a write that resolves z_max = z_min ends in a configuration error:
\* not in the ZeroDivisionError of a division by the zero delta, and not in
\* an image.
C4_EqualBoundsRejected ==
    (last.op = "write" /\ IsFloat(last.zmin) /\ IsFloat(last.zmax)
        /\ last.zmin.n = last.zmax.n) =>
        /\ last.err \notin {"none", "ZeroDivisionError"}
        /\ ~last.image

\* C5: in a write with z_min < z_max every NaN cell, numpy.nan itself or
\* another NaN, skips the index computation and gets 2^(bitdepth-1) - 1 in
\* each colour channel in RGB and RGBA modes, 0 in L and LA modes.
C5_NanSentinel ==
    (WroteInRange /\ ~NumberCells(last.matrix)) =>
        /\ last.err = "none"
        /\ \A i \in 1..Len(last.matrix) : \A j \in 1..Len(last.matrix[i]) :
               IsNan(last.matrix[i][j]) =>
                   /\ last.idx[i][j] = NanIndex
                   /\ \A c \in 1..Channels(png_mode) :
                          last.px[i][j][c] = IF IsColor(png_mode)
                                             THEN 2^(png_bitdepth - 1) - 1
                                             ELSE 0

\* a record whose fields the chunk layout can carry: compression method 0,
\* a Latin-1 keyword and an ASCII language tag, no NUL in the three fields
\* that a NUL ends
Below(s, n) == \A i \in 1..Len(s) : s[i] > 0 /\ s[i] < n
IsRecord(c) ==
    /\ c.compressed \in {0, 1}
    /\ c.compression_method = 0
    /\ Below(c.keyword, 256)
    /\ Below(c.lang, 128)
    /\ Below(c.translated_keyword, 1114112)

\* C6: pack succeeds on every record, compressed or not, and decoding the
\* packed bytes gives a record equal to the original in every field.
C6_PackRoundTrip ==
    /\ (cphase = "packed" /\ IsRecord(chunk.v)) => packed.err = "none"
    /\ (cphase = "decoded" /\ IsRecord(chunk.v)) =>
           decoded.err = "none" /\ decoded.v = chunk.v

\* keyword NUL flag method language NUL translated-keyword NUL payload
FullStructure(d) ==
    \E i \in 1..Len(d) :
        /\ d[i] = 0
        /\ \A h \in 1..(i - 1) : d[h] # 0
        /\ Len(d) >= i + 2
        /\ Cardinality({h \in (i + 3)..Len(d) : d[h] = 0}) >= 2

\* C7: decoding bytes that lack the full structure, the empty byte string
\* among them, ends in an error and yields no record.
C7_MalformedRejected ==
    (cphase = "parsed" /\ ~FullStructure(chunk_data)) => chunk.err # "none"

\* the keywords of the records _save_png inserts, in order
InsertedKeywords(mode) ==
    [i \in 1..Len(ScaleKeys) |-> KeyText(ScaleKeys[i])]
        \o (IF IsColor(mode) THEN <<KwColormap>> ELSE <<>>) \o <<KwYAscend>>

\* C8: in the chunk list a write saves, the base image's last chunk is last,
\* the base chunks before it come first in their order, and between them sit
\* the iTXt records: the nine scale fields in order, colormap (in the colour
\* modes), y_ascend.
C8_RecordsBeforeEnd ==
    (last.op = "write" /\ last.err = "none") =>
        LET base == make_png(last.arr, png_mode, png_bitdepth)
            recs == SubSeq(file, Len(base), Len(file) - 1)
            keys == InsertedKeywords(png_mode)
        IN  /\ file[Len(file)] = base[Len(base)]
            /\ SubSeq(file, 1, Len(base) - 1) = SubSeq(base, 1, Len(base) - 1)
            /\ Len(recs) = Len(keys)
            /\ \A i \in 1..Len(recs) :
                   /\ recs[i].tag = TagITXT
                   /\ get_chunkdata(ChunkInit(TRUE, recs[i].data, <<>>, <<>>).v).keyword
                          = keys[i]

\* a write in RGB mode has saved the three base chunks and eleven records
C8_Witness ==
    /\ last.op = "write" /\ last.err = "none"
    /\ png_mode = "RGB"
    /\ Len(file) = 14
    /\ file[14].tag = TagIEND

\* the file last written holds z_min < z_max, both numbers, and text z_units
WrittenThenRead ==
    /\ last.op = "read"
    /\ IsFloat(written["z_min"]) /\ IsFloat(written["z_max"])
    /\ written["z_min"].n < written["z_max"].n
    /\ written["z_units"].t = "str"
ReadBack ==
    /\ last.err = "none"
    /\ scale["z_min"] = written["z_min"]
    /\ scale["z_max"] = written["z_max"]
    /\ scale["z_units"] = written["z_units"]

RoundedIndex(v, zmin, zmax, levels) ==
    FRound(FClip(FDiv(FFromInt(v - zmin),
                      FDiv(FFromInt(zmax - zmin), FFromInt(levels - 1))),
                 0, levels - 1))

\* C10: the index of every number v with z_min <= v <= z_max is the nearest
\* level round((v - z_min) / delta).
C10_NearestLevel ==
    (WroteInRange /\ last.levels >= 2 /\ NumberCells(last.matrix)) =>
        \A i \in 1..Len(last.matrix) : \A j \in 1..Len(last.matrix[i]) :
            (last.zmin.n <= last.matrix[i][j].n
                /\ last.matrix[i][j].n <= last.zmax.n) =>
                last.idx[i][j] = RoundedIndex(last.matrix[i][j].n, last.zmin.n,
                                              last.zmax.n, last.levels)

\* the decoded chunk data of the iTXt chunks of the file last written
FileRecords ==
    [i \in {h \in 1..Len(file) : file[h].tag = TagITXT} |->
        get_chunkdata(ChunkInit(TRUE, file[i].data, <<>>, <<>>).v)]
RecordsOf(keyword) ==
    {i \in DOMAIN FileRecords : FileRecords[i].keyword = keyword}

\* C11: a write saves exactly one record for each scale field that is set
\* after the defaults are resolved and none for a field still unset, a
\* colormap record in the RGB and RGBA modes only, and exactly one y_ascend
\* record, its text "up" or "down".
C11_RecordsOfPopulatedFields ==
    (last.op = "write" /\ last.err = "none") =>
        /\ \A k \in KeySet :
               Cardinality(RecordsOf(KeyText(k)))
                   = IF written[k] = None THEN 0 ELSE 1
        /\ Cardinality(RecordsOf(KwColormap)) = IF IsColor(png_mode) THEN 1 ELSE 0
        /\ Cardinality(RecordsOf(KwYAscend)) = 1
        /\ \A i \in RecordsOf(KwYAscend) : FileRecords[i].text \in {TextUp, TextDown}

\* C12: in the pixel array a write hands to the encoder every entry lies in
\* 0..2^bitdepth-1 for the bit depth of the moment, and the alpha entry of
\* every pixel (modes LA and RGBA) is 2^bitdepth-1.
C12_PixelsInRange ==
    (last.op = "write" /\ last.err = "none") =>
        \A i \in 1..Len(last.arr) : \A j \in 1..Len(last.arr[i]) :
            /\ \A c \in 1..ModeLen(png_mode) :
                   last.arr[i][j][c] \in 0..(2^png_bitdepth - 1)
            /\ ModeLen(png_mode) > Channels(png_mode) =>
                   last.arr[i][j][ModeLen(png_mode)] = 2^png_bitdepth - 1
=============================================================================
